---- MODULE Spec2Model ----
(***************************************************************************)
(* The session / connection core of the reql driver (src/reql/src/lib.rs): *)
(* token leasing, the routing table `channels`, the `broken` and           *)
(* `change_feed` flags, Connection::close and Drop for Connection.         *)
(*                                                                         *)
(* Session is shared by reference between threads, so every load, store,   *)
(* fetch_update and DashMap call of Session::connection is its own step.   *)
(* Connection::request, the reader task, the cursor's feed detection and   *)
(* the construction of the Session live in modules that are not part of    *)
(* lib.rs; they are modelled from spec.md (sections 3, 4.3-4.6, 5).        *)
(***************************************************************************)
EXTENDS Integers, Sequences, FiniteSets, TLC

\* ------------------------------------------------------------------ bounds
NumTasks == 2      \* threads calling into the session at the same time
MaxConns == 2      \* Connection handles the application holds at once
MaxLeases == 3     \* leases followed in one behaviour of Spec
MaxWrapLeases == 5 \* leases followed in one behaviour of SpecLease
MaxSent == 1       \* frames in flight from the driver to the server
MaxRecv == 1       \* frames in flight from the server to the reader
MaxFrames == 2     \* frames written in one behaviour
U64_MAX == 3       \* u64::MAX, with the counter's width scaled down

Tasks == 1..NumTasks
Handles == 1..MaxConns

\* --------------------------------------------------- protocol vocabulary
\* ql2 QueryType and ResponseType, by variant name
QueryType == {"Start", "Stop", "NoreplyWait", "ServerInfo"}
ResponseType == {"SuccessAtom", "SuccessPartial", "WaitComplete", "ServerInfo"}

\* What the server may answer to a query of type q: the type `t`, whether the
\* notes `n` carry a feed note, and the shape of the results `r` ("info": one
\* ServerInfo, "empty": an empty array, "bad": anything else). NOREPLY_WAIT is
\* also answered with a type other than WAIT_COMPLETE.
ResponseShapes(q) ==
    CASE q = "Start" ->
            { [t |-> "SuccessAtom", feed |-> FALSE, r |-> "bad"],
              [t |-> "SuccessPartial", feed |-> TRUE, r |-> "bad"] }
      [] q = "Stop" ->
            { [t |-> "SuccessAtom", feed |-> FALSE, r |-> "bad"] }
      [] q = "NoreplyWait" ->
            { [t |-> "WaitComplete", feed |-> FALSE, r |-> "empty"],
              [t |-> "SuccessAtom", feed |-> FALSE, r |-> "bad"] }
      [] OTHER ->
            { [t |-> "ServerInfo", feed |-> FALSE, r |-> "info"],
              [t |-> "ServerInfo", feed |-> FALSE, r |-> "empty"],
              [t |-> "ServerInfo", feed |-> FALSE, r |-> "bad"] }

\* Result<(ResponseType, Response)>: what a sink carries
OkMsg(f) == [ok |-> TRUE, err |-> "none", t |-> f.t, feed |-> f.feed, r |-> f.r]
ErrMsg(e) == [ok |-> FALSE, err |-> e, t |-> "none", feed |-> FALSE, r |-> "empty"]

VARIABLES
    db,               \* Session.db
    token,            \* Session.token (AtomicU64)
    broken,           \* Session.broken (AtomicBool)
    change_feed,      \* Session.change_feed (AtomicBool)
    channels,         \* Session.channels: token -> queue of the sink
    conns,            \* the Connection handles the application holds
    tasks,            \* per thread: the call in progress
    last,             \* history: the call or drop that ended last
    sent,             \* frames written to the socket, not yet read by the server
    recv,             \* frames written by the server, not yet read by the reader
    reader,           \* the reader task: "running" or "exited"
    overflow_checks,  \* build profile: "on" when x + 1 panics on overflow, "off"
                      \* when it wraps; "unknown" until the first overflow shows it
    leased,           \* history: the values returned by Session::token, in order
    written           \* history: how many frames were written to the socket

vars == <<db, token, broken, change_feed, channels, conns, tasks, last, sent, recv,
          reader, overflow_checks, leased, written>>

\* ------------------------------------------------------------ values
NoConn == [live |-> FALSE, token |-> 0, cursor |-> "none", busy |-> FALSE,
           lease |-> FALSE]

IdleTask == [pc |-> "idle", op |-> "none", tok |-> 0, h |-> 0, opt |-> "none"]

Ended(o, tok, r) == [op |-> o, result |-> r]

Frame(tok, q, opt) == [token |-> tok, q |-> q, opt |-> opt]

FreeHandles == {h \in Handles : ~conns[h].live}

NewHandle == CHOOSE h \in FreeHandles : \A g \in FreeHandles : h <= g

TypeOK ==
    /\ db \in {"test", "marvel"}
    /\ token \in 0..U64_MAX
    /\ broken \in BOOLEAN
    /\ change_feed \in BOOLEAN
    /\ DOMAIN channels \subseteq 0..U64_MAX
    /\ \A h \in Handles : conns[h].token \in 0..U64_MAX
    /\ \A t \in Tasks : tasks[t].pc \in {"idle", "change_feed", "token", "mark_broken",
                                         "insert", "write", "await"}
    /\ Len(sent) <= MaxSent
    /\ Len(recv) <= MaxRecv
    /\ reader \in {"running", "exited"}
    /\ Len(leased) <= MaxWrapLeases
    /\ overflow_checks \in {"unknown", "on", "off"}
    /\ written \in 0..MaxFrames

\* ------------------------------------------------------------ Session
\* an increment that skips a value
token_next_skip(x) == (x + 2) % (U64_MAX + 1)

\* the closure of fetch_update: |x| Some(x + 1), wrapping when the build
\* does not check overflow
token_next(x) == (x + 1) % (U64_MAX + 1)

\* a mark_broken that stores nothing
mark_broken_skipped == broken

\* a mark_broken that flips the flag instead of setting it
mark_broken_flip == ~broken

\* Session::mark_broken: the value stored
mark_broken == TRUE

\* a broken() that never fails
Session_broken_unchecked == "Ok"

\* Session::broken
Session_broken == IF broken THEN "ConnectionBroken" ELSE "Ok"

\* Session::is_broken
is_broken == broken

\* Session::mark_change_feed / unmark_change_feed: the value stored
mark_change_feed == TRUE

unmark_change_feed == FALSE

\* Session::is_change_feed
is_change_feed == change_feed

\* Session::change_feed
Session_change_feed == IF change_feed THEN "ConnectionLocked" ELSE "Ok"

\* an insert that registers the sink under the value after the token
channels_insert_shifted(ch, tok) ==
    [k \in (DOMAIN ch) \cup {token_next(tok)} |-> IF k = token_next(tok) THEN <<>> ELSE ch[k]]

\* DashMap::insert and DashMap::remove on Session.channels
channels_insert(ch, tok) ==
    [k \in (DOMAIN ch) \cup {tok} |-> IF k = tok THEN <<>> ELSE ch[k]]

\* a remove that leaves the table as it is
channels_remove_nothing(ch, tok) == ch

channels_remove(ch, tok) == [k \in (DOMAIN ch) \ {tok} |-> ch[k]]

\* Drop for Connection: the flag after the drop
drop_change_feed == IF is_change_feed THEN unmark_change_feed ELSE change_feed

Init ==
    /\ db = "test"
    /\ token = 1
    /\ broken = FALSE
    /\ change_feed = FALSE
    /\ channels = [k \in {} |-> <<>>]
    /\ conns = [h \in Handles |-> NoConn]
    /\ tasks = [t \in Tasks |-> IdleTask]
    /\ last = Ended("none", 0, "None")
    /\ sent = <<>>
    /\ recv = <<>>
    /\ reader = "running"
    /\ overflow_checks = "unknown"
    /\ leased = <<>>
    /\ written = 0

\* Session::connection, line 122 (self.broken()?): also the first statement of
\* noreply_wait and server, which begin with self.connection()?
connection_begin(t, o) ==
    /\ tasks[t].pc = "idle"
    /\ IF Session_broken = "Ok"
       THEN /\ tasks' = [tasks EXCEPT ![t] = [IdleTask EXCEPT !.pc = "change_feed", !.op = o]]
            /\ UNCHANGED last
       ELSE /\ last' = Ended(o, 0, Session_broken)
            /\ UNCHANGED tasks
    /\ UNCHANGED <<db, token, broken, change_feed, channels, conns, sent, recv,
                   reader, overflow_checks, leased, written>>

\* Session::connection, line 123 (self.change_feed()?)
connection_change_feed(t) ==
    /\ tasks[t].pc = "change_feed"
    /\ IF Session_change_feed = "Ok"
       THEN /\ tasks' = [tasks EXCEPT ![t] = [@ EXCEPT !.pc = "token"]]
            /\ UNCHANGED last
       ELSE /\ tasks' = [tasks EXCEPT ![t] = IdleTask]
            /\ last' = Ended(tasks[t].op, 0, Session_change_feed)
    /\ UNCHANGED <<db, token, broken, change_feed, channels, conns, sent, recv,
                   reader, overflow_checks, leased, written>>

\* Session::token, lines 111-114: the fetch_update. At u64::MAX the closure's
\* x + 1 overflows: a build with overflow checks panics there and the counter
\* keeps its value, a build without them wraps to 0.
Session_token(t, cap) ==
    /\ tasks[t].pc = "token"
    /\ Len(leased) < cap
    /\ \E oc \in {"on", "off"} :
          /\ overflow_checks \in {oc, "unknown"}
          /\ overflow_checks' = IF token = U64_MAX THEN oc ELSE overflow_checks
          /\ token = U64_MAX \/ oc = "off" \/ overflow_checks = "on"
          /\ IF token = U64_MAX /\ oc = "on"
             THEN /\ tasks' = [tasks EXCEPT ![t] = IdleTask]
                  /\ last' = Ended(tasks[t].op, 0, "Panic")
                  /\ UNCHANGED <<token, leased>>
             ELSE /\ token' = token_next(token)
                  /\ leased' = Append(leased, token)
                  /\ tasks' = [tasks EXCEPT ![t] =
                         [@ EXCEPT !.tok = token,
                                   !.pc = IF token = U64_MAX THEN "mark_broken"
                                                             ELSE "insert"]]
                  /\ UNCHANGED last
    /\ UNCHANGED <<db, broken, change_feed, channels, conns, sent, recv, reader, written>>

\* Session::token, lines 115-117: self.mark_broken()
Session_token_mark_broken(t) ==
    /\ tasks[t].pc = "mark_broken"
    /\ broken' = mark_broken
    /\ tasks' = [tasks EXCEPT ![t] = [@ EXCEPT !.pc = "insert"]]
    /\ UNCHANGED <<db, token, change_feed, channels, conns, last, sent, recv, reader,
                   overflow_checks, leased, written>>

\* Session::connection, lines 125-127: register the sink, build the Connection
connection_insert(t) ==
    /\ tasks[t].pc = "insert"
    /\ tasks[t].op = "connection" => FreeHandles # {}
    /\ channels' = channels_insert(channels, tasks[t].tok)
    /\ IF tasks[t].op = "connection"
       THEN /\ conns' = [conns EXCEPT ![NewHandle] =
                   [live |-> TRUE, token |-> tasks[t].tok, cursor |-> "none",
                    busy |-> FALSE, lease |-> TRUE]]
            /\ tasks' = [tasks EXCEPT ![t] = IdleTask]
            /\ last' = Ended("connection", tasks[t].tok, "Ok")
       ELSE /\ tasks' = [tasks EXCEPT ![t] = [@ EXCEPT !.pc = "write"]]
            /\ UNCHANGED <<conns, last>>
    /\ UNCHANGED <<db, token, broken, change_feed, sent, recv, reader,
                   overflow_checks, leased, written>>

\* the payload a call hands to Connection::request (lines 174, 190, 283-288)
Payload(t) ==
    CASE tasks[t].op = "noreply_wait" -> Frame(tasks[t].tok, "NoreplyWait", "none")
      [] tasks[t].op = "server" -> Frame(tasks[t].tok, "ServerInfo", "none")
      [] OTHER -> Frame(tasks[t].tok, "Stop", tasks[t].opt)

\* Connection::close, lines 283-287: the argument attached to the STOP payload
close_arg(noreply_wait) == IF noreply_wait THEN "none" ELSE "noreply_false"

\* Session::server, lines 198-202: decoding the result array
server_decode(r) ==
    CASE r = "bad" -> "Json"
      [] r = "empty" -> "Other"
      [] OTHER -> "Ok"

\* what noreply_wait (lines 179-185) makes of the awaited response
noreply_wait_result(msg) == IF msg.ok THEN "Ok" ELSE msg.err

\* what server (lines 192-202) makes of the awaited response
server_result(msg) == IF msg.ok THEN server_decode(msg.r) ELSE msg.err

\* what close (lines 290-297) makes of the awaited response
close_result(msg) == IF msg.ok THEN "Ok" ELSE msg.err

\* a close that clears the flag whatever the request returned
close_change_feed_always(msg) == unmark_change_feed

\* close, line 291: the flag after the awaited response
close_change_feed(msg) == IF msg.ok THEN unmark_change_feed ELSE change_feed

\* a successful close ends the cursor of a change feed (spec.md 4.6: closing
\* the cursor sends STOP and clears the flag)
close_cursor(c, r) == IF r = "Ok" /\ c = "ChangeFeed" THEN "Closed" ELSE c

\* The call of task t returns r: the Connection that noreply_wait and server
\* leased goes out of scope (Drop for Connection, lines 302-307); close gives
\* its borrow of the handle back.
Return(t, r, ch) ==
    /\ tasks' = [tasks EXCEPT ![t] = IdleTask]
    /\ last' = Ended(tasks[t].op, tasks[t].tok, r)
    /\ IF tasks[t].op = "close"
       THEN /\ channels' = ch
            /\ conns' = [conns EXCEPT ![tasks[t].h] =
                   [@ EXCEPT !.busy = FALSE, !.cursor = close_cursor(@, r)]]
       ELSE /\ channels' = channels_remove(ch, tasks[t].tok)
            /\ UNCHANGED conns

\* Connection::request: write the frame under the stream lock
request_write(t) ==
    /\ tasks[t].pc = "write"
    /\ Len(sent) < MaxSent
    /\ written < MaxFrames
    /\ sent' = Append(sent, Payload(t))
    /\ written' = written + 1
    /\ tasks' = [tasks EXCEPT ![t] = [@ EXCEPT !.pc = "await"]]
    /\ UNCHANGED <<db, token, broken, change_feed, channels, conns, last, recv, reader,
                   overflow_checks, leased>>

\* Connection::request: the write fails (Driver::Io); a socket failure marks
\* the session broken; the caller's `?` returns the error
request_write_fails(t) ==
    /\ tasks[t].pc = "write"
    /\ broken' = mark_broken
    /\ Return(t, "Io", channels)
    /\ change_feed' = IF tasks[t].op = "close" THEN change_feed ELSE drop_change_feed
    /\ UNCHANGED <<db, token, sent, recv, reader, overflow_checks, leased, written>>

\* Connection::request: the next message of the connection's own sink arrives
\* and the call runs to its end
request_await(t) ==
    /\ tasks[t].pc = "await"
    /\ tasks[t].tok \in DOMAIN channels
    /\ channels[tasks[t].tok] # <<>>
    /\ LET msg == Head(channels[tasks[t].tok])
           ch == [channels EXCEPT ![tasks[t].tok] = Tail(@)]
       IN  CASE tasks[t].op = "noreply_wait" ->
                  /\ Return(t, noreply_wait_result(msg), ch)
                  /\ change_feed' = drop_change_feed
             [] tasks[t].op = "server" ->
                  /\ Return(t, server_result(msg), ch)
                  /\ change_feed' = drop_change_feed
             [] OTHER ->
                  /\ Return(t, close_result(msg), ch)
                  /\ change_feed' = close_change_feed(msg)
    /\ UNCHANGED <<db, token, broken, sent, recv, reader, overflow_checks, leased, written>>

\* Connection::close, lines 276-282: the check of the session's flag
close_begin(t, h, noreply_wait) ==
    /\ tasks[t].pc = "idle"
    /\ conns[h].live /\ ~conns[h].busy
    /\ IF ~is_change_feed
       THEN /\ last' = Ended("close", conns[h].token, "Ok")
            /\ UNCHANGED <<tasks, conns>>
       ELSE /\ tasks' = [tasks EXCEPT ![t] =
                   [IdleTask EXCEPT !.op = "close", !.h = h, !.tok = conns[h].token,
                                    !.opt = close_arg(noreply_wait), !.pc = "write"]]
            /\ conns' = [conns EXCEPT ![h] = [@ EXCEPT !.busy = TRUE]]
            /\ UNCHANGED last
    /\ UNCHANGED <<db, token, broken, change_feed, channels, sent, recv, reader,
                   overflow_checks, leased, written>>

\* Drop for Connection, lines 302-307
Connection_drop(h) ==
    /\ conns[h].live /\ ~conns[h].busy
    /\ channels' = channels_remove(channels, conns[h].token)
    /\ change_feed' = drop_change_feed
    /\ conns' = [conns EXCEPT ![h] = NoConn]
    /\ last' = Ended("drop", conns[h].token, "Ok")
    /\ UNCHANGED <<db, token, broken, tasks, sent, recv, reader, overflow_checks, leased,
                   written>>

\* #[derive(Clone)] on Connection, line 241: same session, same token, the
\* receiver shared
Connection_clone(h) ==
    /\ conns[h].live
    /\ FreeHandles # {}
    /\ conns' = [conns EXCEPT ![NewHandle] =
           [live |-> TRUE, token |-> conns[h].token, cursor |-> "none",
            busy |-> FALSE, lease |-> FALSE]]
    /\ UNCHANGED <<db, token, broken, change_feed, channels, tasks, last, sent, recv,
                   reader, overflow_checks, leased, written>>

\* Session::use, lines 147-152: &mut self, so no Connection borrows the
\* session and no call is in progress
Session_use(name) ==
    /\ \A t \in Tasks : tasks[t].pc = "idle"
    /\ \A h \in Handles : ~conns[h].live
    /\ db' = name
    /\ UNCHANGED <<token, broken, change_feed, channels, conns, tasks, last, sent, recv,
                   reader, overflow_checks, leased, written>>

\* -------------------------------------------- cursor, server, reader
\* run (spec.md 4.5): write START for the connection's token; the cursor that
\* now owns the connection waits for its first response
cursor_run(h) ==
    /\ conns[h].live /\ ~conns[h].busy
    /\ conns[h].cursor = "none"
    /\ Len(sent) < MaxSent
    /\ written < MaxFrames
    /\ sent' = Append(sent, Frame(conns[h].token, "Start", "none"))
    /\ written' = written + 1
    /\ conns' = [conns EXCEPT ![h] = [@ EXCEPT !.cursor = "awaiting"]]
    /\ UNCHANGED <<db, token, broken, change_feed, channels, tasks, last, recv, reader,
                   overflow_checks, leased>>

\* the mode a cursor enters on its first response (spec.md 4.6)
cursor_mode(msg) ==
    IF ~msg.ok THEN "Errored" ELSE IF msg.feed THEN "ChangeFeed" ELSE "Exhausted"

\* the first response reaches the cursor: a feed note puts it in ChangeFeed
\* mode and sets the session's flag (spec.md 4.6, change-feed detection)
cursor_first_response(h) ==
    /\ conns[h].live /\ ~conns[h].busy
    /\ conns[h].cursor = "awaiting"
    /\ conns[h].token \in DOMAIN channels
    /\ channels[conns[h].token] # <<>>
    /\ LET msg == Head(channels[conns[h].token])
       IN  /\ conns' = [conns EXCEPT ![h] = [@ EXCEPT !.cursor = cursor_mode(msg)]]
           /\ change_feed' = IF cursor_mode(msg) = "ChangeFeed"
                              THEN mark_change_feed ELSE change_feed
    /\ channels' = [channels EXCEPT ![conns[h].token] = Tail(@)]
    /\ UNCHANGED <<db, token, broken, tasks, last, sent, recv, reader, overflow_checks,
                   leased, written>>

\* the server answers the oldest frame it has not read yet
server_respond(shape) ==
    /\ reader = "running"
    /\ sent # <<>>
    /\ Len(recv) < MaxRecv
    /\ sent' = Tail(sent)
    /\ recv' = Append(recv, [token |-> Head(sent).token, t |-> shape.t,
                              feed |-> shape.feed, r |-> shape.r])
    /\ UNCHANGED <<db, token, broken, change_feed, channels, conns, tasks, last, reader,
                   overflow_checks, leased, written>>

\* a routing that pushes the frame to every sink of the table
route_broadcast(ch, f) == [k \in DOMAIN ch |-> Append(ch[k], OkMsg(f))]

\* the reader's routing of one frame (spec.md 4.4, steps 1-4): push to the sink
\* of the frame's token, or drop the frame when the token has no entry
route(ch, f) ==
    IF f.token \in DOMAIN ch
    THEN [ch EXCEPT ![f.token] = Append(@, OkMsg(f))]
    ELSE ch

reader_frame ==
    /\ reader = "running"
    /\ recv # <<>>
    /\ channels' = route(channels, Head(recv))
    /\ recv' = Tail(recv)
    /\ UNCHANGED <<db, token, broken, change_feed, conns, tasks, last, sent, reader,
                   overflow_checks, leased, written>>

\* clean EOF (spec.md 4.4, step 6): mark the session broken, fail every
\* outstanding sink, and the reader ends
reader_eof ==
    /\ reader = "running"
    /\ recv = <<>>
    /\ broken' = mark_broken
    /\ channels' = [k \in DOMAIN channels |->
                       Append(channels[k], ErrMsg("ConnectionBroken"))]
    /\ reader' = "exited"
    /\ UNCHANGED <<db, token, change_feed, conns, tasks, last, sent, recv,
                   overflow_checks, leased, written>>

\* --------------------------------------------------------- specification
Next ==
    \/ \E t \in Tasks : \E o \in {"connection", "noreply_wait", "server"} :
          connection_begin(t, o)
    \/ \E t \in Tasks : connection_change_feed(t)
    \/ \E t \in Tasks : Session_token(t, MaxLeases)
    \/ \E t \in Tasks : Session_token_mark_broken(t)
    \/ \E t \in Tasks : connection_insert(t)
    \/ \E t \in Tasks : request_write(t)
    \/ \E t \in Tasks : request_write_fails(t)
    \/ \E t \in Tasks : request_await(t)
    \/ \E t \in Tasks : \E h \in Handles : \E w \in BOOLEAN : close_begin(t, h, w)
    \/ \E h \in Handles : Connection_drop(h)
    \/ \E h \in Handles : cursor_run(h)
    \/ \E h \in Handles : cursor_first_response(h)
    \/ \E shape \in ResponseShapes(IF sent = <<>> THEN "Start" ELSE Head(sent).q) :
          server_respond(shape)
    \/ reader_frame
    \/ reader_eof

Spec == Init /\ [][Next]_vars

\* Leasing alone, followed past the wrap of the counter: connection(), the
\* handles it returns, their clones and drops, and use()
NextLease ==
    \/ \E t \in Tasks : connection_begin(t, "connection")
    \/ \E t \in Tasks : connection_change_feed(t)
    \/ \E t \in Tasks : Session_token(t, MaxWrapLeases)
    \/ \E t \in Tasks : Session_token_mark_broken(t)
    \/ \E t \in Tasks : connection_insert(t)
    \/ \E h \in Handles : Connection_drop(h)
    \/ \E h \in Handles : Connection_clone(h)
    \/ \E name \in {"test", "marvel"} : Session_use(name)

SpecLease == Init /\ [][NextLease]_vars

\* ------------------------------------------------------------- claims
\* task t holds the Connection that its noreply_wait or server call leased
HoldsConnection(t) ==
    tasks[t].op \in {"noreply_wait", "server"} /\ tasks[t].pc \in {"write", "await"}

\* handle h is a Connection that Session::connection returned (not a clone)
Leased(h) == conns[h].live /\ conns[h].lease

\* C1: any two distinct Connections leased from the session (the handles that
\* connection() returned and the ones noreply_wait and server hold inside)
\* carry different tokens, under every interleaving of the leasing calls.
C1_DistinctTokens ==
    /\ \A g, h \in Handles :
          (g # h /\ Leased(g) /\ Leased(h)) => conns[g].token # conns[h].token
    /\ \A t \in Tasks : \A h \in Handles :
          (HoldsConnection(t) /\ Leased(h)) => tasks[t].tok # conns[h].token
    /\ \A t, u \in Tasks :
          (t # u /\ HoldsConnection(t) /\ HoldsConnection(u)) => tasks[t].tok # tasks[u].tok

\* C2: the tokens leased by one session are 1, 2, 3, ...: the first lease
\* returns 1 and every later lease returns the previous leased token plus 1.
C2_TokensIncreaseFromOne ==
    /\ leased # <<>> => leased[1] = 1
    /\ \A i \in 1..(Len(leased) - 1) : leased[i + 1] = leased[i] + 1

\* some live Connection's cursor is in ChangeFeed mode
FeedOpen == \E h \in Handles : conns[h].live /\ conns[h].cursor = "ChangeFeed"

\* C3: while a cursor is in ChangeFeed mode and not closed, every connection()
\* call that reaches the change-feed gate returns ConnectionLocked, whatever
\* was done meanwhile with the other Connections of the session.
C3_LockedWhileFeedOpen ==
    [][\A t \in Tasks :
          (FeedOpen /\ connection_change_feed(t))
             => (tasks'[t].pc = "idle" /\ last'.result = "ConnectionLocked")]_vars

\* C4: at most one live Connection of the session is in change-feed mode.
C4_OneChangeFeed ==
    Cardinality({h \in Handles : conns[h].live /\ conns[h].cursor = "ChangeFeed"}) <= 1

\* C5: once the broken flag is true it stays true in every later state.
C5_BrokenNeverCleared == [][broken => broken']_vars

\* C5 witness: the session is broken and a connection() called after that was
\* refused for it
C5_Witness == broken /\ last = Ended("connection", 0, "ConnectionBroken")

\* C6: a connection(), noreply_wait() or server() call that starts when the
\* session is broken ends at once with ConnectionBroken (also when the
\* change-feed flag is set), leases nothing and writes no frame.
C6_BrokenFailsFast ==
    [][\A t \in Tasks : \A o \in {"connection", "noreply_wait", "server"} :
          (broken /\ connection_begin(t, o))
             => /\ last' = Ended(o, 0, "ConnectionBroken")
                /\ tasks'[t].pc = "idle"
                /\ UNCHANGED <<sent, written, token, channels, leased>>]_vars

\* C6 witness: a noreply_wait() was refused with ConnectionBroken on a broken
\* session whose change-feed flag is set and whose reader still runs
C6_Witness ==
    /\ broken /\ change_feed /\ reader = "running"
    /\ last = Ended("noreply_wait", 0, "ConnectionBroken")
    /\ written = 1

\* C7: dropping a Connection removes the entry of its token from the routing
\* table, and nothing else: an entry that is there goes away once, the entries
\* of the other tokens stay as they are, and a drop that finds no entry of its
\* token removes nothing.
C7_DropRemovesOwnEntry ==
    [][\A h \in Handles :
          Connection_drop(h)
             => /\ conns[h].token \notin DOMAIN channels'
                /\ DOMAIN channels' = (DOMAIN channels) \ {conns[h].token}
                /\ \A k \in DOMAIN channels' : channels'[k] = channels[k]]_vars

\* C7 witness: a Connection was dropped, its leased token has no entry any
\* more, and the entry of another Connection is still there
C7_Witness ==
    /\ last.op = "drop"
    /\ \E i \in 1..Len(leased) :
          /\ leased[i] \notin DOMAIN channels
          /\ \A h \in Handles : conns[h].live => conns[h].token # leased[i]
    /\ \E h \in Handles : conns[h].live /\ conns[h].token \in DOMAIN channels

\* C8: close() on a Connection whose cursor is not a change feed is a no-op
\* that returns success: no frame is written and the flags, the counter and
\* the routing table stay as they are, also while another Connection of the
\* session owns an open change feed.
C8_CloseOfNormalConnectionIsNoOp ==
    [][\A t \in Tasks : \A h \in Handles : \A w \in BOOLEAN :
          (conns[h].cursor # "ChangeFeed" /\ close_begin(t, h, w))
             => /\ last' = Ended("close", conns[h].token, "Ok")
                /\ tasks'[t].pc = "idle"
                /\ UNCHANGED <<sent, written, change_feed, broken, token, channels>>]_vars

\* task t runs a close() of a Connection whose cursor is an open change feed
ClosesFeed(t) ==
    tasks[t].op = "close" /\ conns[tasks[t].h].cursor = "ChangeFeed"

\* C9: a response with a feed note sets the change-feed flag, and a
\* connection() that meets the flag returns ConnectionLocked. A close() of the
\* connection with the feed writes one STOP frame on the connection's own
\* token and returns success only after that; when it has returned success
\* the flag is false, and a connection() that meets the flag false gets past
\* the gate.
C9_FeedLocksUntilClosed ==
    [][/\ \A h \in Handles :
             (cursor_first_response(h) /\ conns'[h].cursor = "ChangeFeed") => change_feed'
       /\ \A t \in Tasks :
             (change_feed /\ connection_change_feed(t))
                => (tasks'[t].pc = "idle" /\ last'.result = "ConnectionLocked")
       /\ \A t \in Tasks : \A h \in Handles : \A w \in BOOLEAN :
             (conns[h].cursor = "ChangeFeed" /\ close_begin(t, h, w))
                => (tasks'[t].pc = "write" /\ tasks'[t].tok = conns[h].token)
       /\ \A t \in Tasks :
             (ClosesFeed(t) /\ request_write(t))
                => /\ written' = written + 1
                   /\ sent' = Append(sent, Frame(conns[tasks[t].h].token, "Stop",
                                                 tasks[t].opt))
       /\ \A t \in Tasks :
             (ClosesFeed(t) /\ request_await(t) /\ last'.result = "Ok") => ~change_feed'
       /\ \A t \in Tasks :
             (~change_feed /\ connection_change_feed(t)) => tasks'[t].pc = "token"]_vars

\* C10: a noreply_wait() returns success only on a WAIT_COMPLETE response that
\* arrived on the token it leased for the call.
C10_NoreplyWaitNeedsWaitComplete ==
    [][\A t \in Tasks :
          (tasks[t].op = "noreply_wait" /\ request_await(t) /\ last'.result = "Ok")
             => /\ Head(channels[tasks[t].tok]).ok
                /\ Head(channels[tasks[t].tok]).t = "WaitComplete"]_vars

C13_NoLeaseAfterMax ==
    /\ \A i \in 1..Len(leased) : leased[i] = U64_MAX => i = Len(leased)
    /\ \A i, j \in 1..Len(leased) : i # j => leased[i] # leased[j]

\* C14: the drop of a Connection clears the change-feed flag only when the
\* flag is set and the dropped Connection owns the feed; the drop of any
\* other Connection, and the drop of the Connection that a noreply_wait() or
\* server() call leased, leaves the flag as it is.
C14_DropClearsFlagOfOwnerOnly ==
    [][/\ \A h \in Handles :
             Connection_drop(h)
                => change_feed' = IF change_feed /\ conns[h].cursor = "ChangeFeed"
                                  THEN FALSE ELSE change_feed
       /\ \A t \in Tasks :
             (/\ tasks[t].op \in {"noreply_wait", "server"}
              /\ request_await(t) \/ request_write_fails(t))
                => change_feed' = change_feed]_vars

\* C15: the token of every live Connection handle, original or clone, is a
\* key of the routing table.
C15_LiveHandleIsRegistered ==
    \A h \in Handles : conns[h].live => conns[h].token \in DOMAIN channels

\* C16: a close() that goes on to send STOP attaches {"noreply": false} when
\* its noreply_wait option is true and sends the bare STOP when it is false,
\* and the frame it writes carries that argument.
C16_StopPayload ==
    [][/\ \A t \in Tasks : \A h \in Handles : \A w \in BOOLEAN :
             (change_feed /\ close_begin(t, h, w))
                => tasks'[t].opt = IF w THEN "noreply_false" ELSE "none"
       /\ \A t \in Tasks :
             (tasks[t].op = "close" /\ request_write(t))
                => sent'[Len(sent')] = Frame(tasks[t].tok, "Stop", tasks[t].opt)]_vars

\* the session state that a lease changes
SessionState == <<token, channels, broken, change_feed, leased>>

\* C17: a connection() call that ends with ConnectionBroken or
\* ConnectionLocked leaves the counter, the routing table and both flags as
\* they were, so the counter always stands at the initial value plus the
\* number of leases made (modulo the counter's width): failed calls leave no
\* gaps.
C17_FailedLeaseChangesNothing ==
    [][/\ \A t \in Tasks :
             (/\ connection_begin(t, "connection") \/ connection_change_feed(t)
              /\ last'.op = "connection"
              /\ last'.result \in {"ConnectionBroken", "ConnectionLocked"}
              /\ tasks'[t].pc = "idle")
                => UNCHANGED SessionState
       /\ token' = (1 + Len(leased')) % (U64_MAX + 1)]_vars

\* C17 witness: a connection() was refused with ConnectionLocked after one
\* lease, and the counter stands right behind that lease
C17_Witness ==
    /\ last = Ended("connection", 0, "ConnectionLocked")
    /\ change_feed /\ ~broken
    /\ leased = <<1>> /\ token = 2 /\ DOMAIN channels = {1}

\* C18: when a noreply_wait() or server() call that leased a token returns,
\* with success, with the error of the request, or for server() with an empty
\* or undecodable result, the token it leased is not a key of the routing
\* table.
C18_InternalLeaseReleased ==
    [][\A t \in Tasks :
          (/\ tasks[t].op \in {"noreply_wait", "server"}
           /\ request_await(t) \/ request_write_fails(t))
             => /\ tasks'[t].pc = "idle"
                /\ last'.op = tasks[t].op
                /\ tasks[t].tok \notin DOMAIN channels']_vars

\* C18 witness: a server() call has returned the error of an empty result
\* array, and the one token that was leased is not registered
C18_Witness ==
    /\ last = Ended("server", 1, "Other")
    /\ leased = <<1>>
    /\ DOMAIN channels = {}
    /\ \A t \in Tasks : tasks[t].pc = "idle"

\* the counter has wrapped: some lease returned u64::MAX
Wrapped == \E i \in 1..Len(leased) : leased[i] = U64_MAX

\* C19: as long as the counter has not wrapped, every key of the routing table
\* is a value that a lease returned: it is at least the initial value 1 and
\* less than the counter; and the table has no more entries than leases were
\* made.
C19_KeysWereLeased ==
    ~Wrapped =>
        /\ \A k \in DOMAIN channels :
              /\ 1 <= k /\ k < token
              /\ \E i \in 1..Len(leased) : leased[i] = k
        /\ Cardinality(DOMAIN channels) <= Len(leased)

\* C19 witness: two leases made, both registered, one handle already dropped
\* and its token leased no more
C19_Witness ==
    /\ ~Wrapped
    /\ leased = <<1, 2>> /\ token = 3
    /\ DOMAIN channels = {2}
    /\ last.op = "drop"

\* the request of task t fails in this step: the write fails, or the message
\* it awaited is an error
RequestFails(t) ==
    \/ request_write_fails(t)
    \/ request_await(t) /\ ~Head(channels[tasks[t].tok]).ok

\* a Connection is dropped in this step: a handle of the application, or the
\* Connection that a noreply_wait() or server() call leased
SomeDrop ==
    \/ \E h \in Handles : Connection_drop(h)
    \/ \E t \in Tasks :
          /\ tasks[t].op \in {"noreply_wait", "server"}
          /\ request_await(t) \/ request_write_fails(t)

====
